---- MODULE Spec2Model ----
(***************************************************************************)
(* Verification model of the virtual-scrolling engine of mimcl:            *)
(*   - ScrollAxis.measure and ScrollAxisAction (src/src/virt/ScrollAxis.ts *)
(*     lines 27-224), a pure calculation over numbers;                     *)
(*   - VTable / VRow (the variant at lines 1457-1959 of the same file),    *)
(*     which composes two ScrollAxis objects and applies their actions to  *)
(*     a matrix of rows and cells.                                         *)
(*                                                                         *)
(* Numbers.  The code computes with JavaScript numbers.  Indices, counts,  *)
(* and pixel positions are modelled as integers; the average item size and *)
(* the measured extent of the rendered items are fractional and modelled   *)
(* as exact fractions <<n, d>> (d > 0), so Math.floor / Math.ceil of a     *)
(* quotient are computed exactly.  The two IEEE special values the code can produce,    *)
(* NaN (0 / 0) and Infinity (x / 0), are kept: NaN is a distinguished      *)
(* value for which every comparison is false and which every arithmetic    *)
(* operation propagates; Infinity only ever occurs as an argument of       *)
(* Math.min / Math.max.  Scroll positions and extents are non-negative.    *)
(***************************************************************************)
EXTENDS Integers, Sequences, FiniteSets, TLC

(***************************************************************************)
(* JavaScript number semantics                                             *)
(***************************************************************************)

\* The value NaN of an index, count or pixel quantity.
NaN == -(10^7)

\* The value Infinity (larger than every index the model can build).
Infinity == 10^6

IsNum(x) == x # NaN

JsLt(a, b) == IsNum(a) /\ IsNum(b) /\ a < b

JsGt(a, b) == IsNum(a) /\ IsNum(b) /\ a > b

JsLe(a, b) == IsNum(a) /\ IsNum(b) /\ a <= b

JsEq(a, b) == IsNum(a) /\ IsNum(b) /\ a = b

JsAdd(a, b) == IF IsNum(a) /\ IsNum(b) THEN a + b ELSE NaN

JsSub(a, b) == IF IsNum(a) /\ IsNum(b) THEN a - b ELSE NaN

JsMax(a, b) == IF IsNum(a) /\ IsNum(b) THEN (IF a >= b THEN a ELSE b) ELSE NaN

JsMin(a, b) == IF IsNum(a) /\ IsNum(b) THEN (IF a <= b THEN a ELSE b) ELSE NaN

JsNe(a, b) == ~JsEq(a, b)

\* The values i takes in "for (i = a; i <= b; i++)", in order: none when a
\* bound is NaN, since the loop test is then false.
LoopSeq(a, b) ==
    IF IsNum(a) /\ IsNum(b) /\ a <= b THEN [k \in 1..(b - a + 1) |-> a + k - 1] ELSE <<>>

\* Array.prototype.splice( start, deleteCount, ...items) on the array seq (0-based
\* start): a NaN start counts as 0, a negative start counts from the end, and
\* deleteCount is clamped to what is left after start.
JsSplice(seq, start, deleteCount, items) ==
    LET len == Len(seq)
        from == IF ~IsNum(start) THEN 0
                ELSE IF start < 0 THEN (IF len + start > 0 THEN len + start ELSE 0)
                ELSE IF start > len THEN len ELSE start
        rest == len - from
        del == IF ~IsNum(deleteCount) \/ deleteCount < 0 THEN 0
               ELSE IF deleteCount > rest THEN rest ELSE deleteCount
    IN  SubSeq(seq, 1, from) \o items \o SubSeq(seq, from + del + 1, len)

(***************************************************************************)
(* Fractions: the average item size                                        *)
(***************************************************************************)

Abs(x) == IF x < 0 THEN -x ELSE x

RECURSIVE Gcd(_, _)
Gcd(a, b) == IF b = 0 THEN a ELSE Gcd(b, a % b)

\* The fraction n / d in lowest terms with a positive denominator; 0 / 0 is NaN.
Frac(n, d) ==
    IF d = 0 THEN <<0, 0>>
    ELSE LET g == Gcd(Abs(n), Abs(d))
             s == IF d < 0 THEN -1 ELSE 1
         IN  <<(s * n) \div g, (s * d) \div g>>

FracNaN == <<0, 0>>

FracIsNum(q) == q[2] # 0

FracZero == <<0, 1>>

\* JavaScript truthiness of a number: neither 0 nor NaN.
Truthy(q) == FracIsNum(q) /\ q[1] # 0

FracPos(q) == FracIsNum(q) /\ q[1] > 0

\* (a + b) / 2
FracMean(a, b) ==
    IF FracIsNum(a) /\ FracIsNum(b)
    THEN Frac(a[1] * b[2] + b[1] * a[2], 2 * a[2] * b[2])
    ELSE FracNaN

\* Math.floor( x / q) for a number x >= 0 and an item size q >= 0.
FloorDiv(x, q) ==
    IF ~IsNum(x) \/ ~FracIsNum(q) THEN NaN
    ELSE IF q[1] = 0 THEN (IF x = 0 THEN NaN ELSE Infinity)
    ELSE (x * q[2]) \div q[1]

\* Math.ceil( x / q) for a number x >= 0 and an item size q >= 0.
CeilDiv(x, q) ==
    IF ~IsNum(x) \/ ~FracIsNum(q) THEN NaN
    ELSE IF q[1] = 0 THEN (IF x = 0 THEN NaN ELSE Infinity)
    ELSE -((-(x * q[2])) \div q[1])

\* Math.ceil( k * q) for a count or index k and an item size q.
CeilMul(k, q) ==
    IF ~IsNum(k) \/ ~FracIsNum(q) THEN NaN
    ELSE -((-(k * q[1])) \div q[2])

(***************************************************************************)
(* ScrollAxisAction                                                        *)
(***************************************************************************)

\* A freshly constructed ScrollAxisAction (the field initialisers).  The
\* field "threw" is not a field of the class: it records that measure threw
\* instead of returning, in which case no other field is meaningful.
ScrollAxisAction ==
    [ threw                 |-> FALSE,
      newAvgItemSize        |-> FracZero,
      newWallSize           |-> 0,
      newSubsetOffset       |-> 0,
      newFirst              |-> 0,
      newLast               |-> 0,
      noAddRemoveNeeded     |-> FALSE,
      neeedToRemoveAllItems |-> FALSE,
      countToRemoveAtStart  |-> 0,
      countToRemoveAtEnd    |-> 0,
      countToAddAtStart     |-> 0,
      countToAddAtEnd       |-> 0 ]

(***************************************************************************)
(* ScrollAxis                                                              *)
(***************************************************************************)

\* new ScrollAxis( minOverscan, optOverscan, maxOverscan): the three values
\* are stored as given.
NewScrollAxis(minOverscan, optOverscan, maxOverscan) ==
    [ minOverscan |-> minOverscan,
      optOverscan |-> optOverscan,
      maxOverscan |-> maxOverscan ]

\* newAvgItemSize of measure.  subsetSize, an extent in pixels, is a fraction
\* like the item size (getBoundingClientRect returns fractional extents).
NewAvgItemSize(oldCount, oldAvgItemSize, subsetSize) ==
    LET raw == IF IsNum(oldCount) /\ FracIsNum(subsetSize)
               THEN Frac(subsetSize[1], subsetSize[2] * oldCount)
               ELSE FracNaN
    IN  IF Truthy(oldAvgItemSize) THEN FracMean(raw, oldAvgItemSize) ELSE raw

\* fitFirst of measure.
FitFirst(totalCount, newAvgItemSize, scrollPos) ==
    JsMin(FloorDiv(scrollPos, newAvgItemSize), totalCount - 1)

\* fitLast of measure.
FitLast(totalCount, newAvgItemSize, frameSize, scrollPos) ==
    JsMin(CeilDiv(JsAdd(scrollPos, frameSize), newAvgItemSize), totalCount - 1)

\* A variant of OverscanFirst that forgets to keep the index from going below 0.
OverscanFirstBelowZero(fitFirst, overscan) == JsSub(fitFirst, overscan)

\* minOverscanFirst, optOverscanFirst, maxOverscanFirst of measure.
OverscanFirst(fitFirst, overscan) == JsMax(JsSub(fitFirst, overscan), 0)

\* minOverscanLast, optOverscanLast, maxOverscanLast of measure.
OverscanLast(fitLast, overscan, totalLast) ==
    JsMin(JsAdd(fitLast, overscan), totalLast)

\* A variant of NewFirst that takes the maximum overscan when the window lies
\* wholly after the old range.
NewFirstMaxWhenAfter(oldFirst, oldLast, minOverscanFirst, optOverscanFirst, maxOverscanFirst) ==
    IF JsLt(minOverscanFirst, oldFirst)
    THEN optOverscanFirst
    ELSE IF JsGt(minOverscanFirst, oldFirst) /\ JsLt(minOverscanFirst, oldLast)
    THEN JsMax(maxOverscanFirst, oldFirst)
    ELSE IF JsGt(maxOverscanFirst, oldLast)
    THEN maxOverscanFirst
    ELSE IF JsGt(JsSub(oldLast, maxOverscanFirst), JsSub(optOverscanFirst, oldLast))
    THEN maxOverscanFirst
    ELSE optOverscanFirst

\* A variant of NewFirst whose fourth test measures the distances from oldFirst.
NewFirstFromOldFirst(oldFirst, oldLast, minOverscanFirst, optOverscanFirst, maxOverscanFirst) ==
    IF JsLt(minOverscanFirst, oldFirst)
    THEN optOverscanFirst
    ELSE IF JsGt(minOverscanFirst, oldFirst) /\ JsLt(minOverscanFirst, oldLast)
    THEN JsMax(maxOverscanFirst, oldFirst)
    ELSE IF JsGt(maxOverscanFirst, oldLast)
    THEN optOverscanFirst
    ELSE IF JsGt(JsSub(oldFirst, maxOverscanFirst), JsSub(optOverscanFirst, oldFirst))
    THEN maxOverscanFirst
    ELSE optOverscanFirst

\* A variant of NewFirst whose second rule shrinks the range to the optimal
\* overscan.
NewFirstShrinksToOptimal(oldFirst, oldLast, minOverscanFirst, optOverscanFirst, maxOverscanFirst) ==
    IF JsLt(minOverscanFirst, oldFirst)
    THEN optOverscanFirst
    ELSE IF JsGt(minOverscanFirst, oldFirst) /\ JsLt(minOverscanFirst, oldLast)
    THEN JsMax(optOverscanFirst, oldFirst)
    ELSE IF JsGt(maxOverscanFirst, oldLast)
    THEN optOverscanFirst
    ELSE IF JsGt(JsSub(oldLast, maxOverscanFirst), JsSub(optOverscanFirst, oldLast))
    THEN maxOverscanFirst
    ELSE optOverscanFirst

\* The decision on newFirst.
NewFirst(oldFirst, oldLast, minOverscanFirst, optOverscanFirst, maxOverscanFirst) ==
    IF JsLt(minOverscanFirst, oldFirst)
    THEN optOverscanFirst
    ELSE IF JsGt(minOverscanFirst, oldFirst) /\ JsLt(minOverscanFirst, oldLast)
    THEN JsMax(maxOverscanFirst, oldFirst)
    ELSE IF JsGt(maxOverscanFirst, oldLast)
    THEN optOverscanFirst
    ELSE IF JsGt(JsSub(oldLast, maxOverscanFirst), JsSub(optOverscanFirst, oldLast))
    THEN maxOverscanFirst
    ELSE optOverscanFirst

\* A variant of NewLast that takes the maximum overscan when the window lies
\* wholly before the old range.
NewLastMaxWhenBefore(oldFirst, oldLast, minOverscanLast, optOverscanLast, maxOverscanLast) ==
    IF JsGt(minOverscanLast, oldLast)
    THEN optOverscanLast
    ELSE IF JsLt(minOverscanLast, oldLast) /\ JsGt(minOverscanLast, oldFirst)
    THEN JsMin(maxOverscanLast, oldLast)
    ELSE IF JsLt(maxOverscanLast, oldFirst)
    THEN maxOverscanLast
    ELSE IF JsGt(JsSub(maxOverscanLast, oldFirst), JsSub(oldFirst, optOverscanLast))
    THEN maxOverscanLast
    ELSE optOverscanLast

\* A variant of NewLast that grows to the maximum overscan although the
\* minimum overscan still lies inside the old range.
NewLastGrowsInsideOld(oldFirst, oldLast, minOverscanLast, optOverscanLast, maxOverscanLast) ==
    IF JsGt(minOverscanLast, oldLast)
    THEN optOverscanLast
    ELSE IF JsLt(minOverscanLast, oldLast) /\ JsGt(minOverscanLast, oldFirst)
    THEN maxOverscanLast
    ELSE IF JsLt(maxOverscanLast, oldFirst)
    THEN optOverscanLast
    ELSE IF JsGt(JsSub(maxOverscanLast, oldFirst), JsSub(oldFirst, optOverscanLast))
    THEN maxOverscanLast
    ELSE optOverscanLast

\* A variant of NewLast whose first test also holds when the minimum
\* overscan ends exactly at oldLast.
NewLastOptimalOnEqual(oldFirst, oldLast, minOverscanLast, optOverscanLast, maxOverscanLast) ==
    IF JsLe(oldLast, minOverscanLast)
    THEN optOverscanLast
    ELSE IF JsLt(minOverscanLast, oldLast) /\ JsGt(minOverscanLast, oldFirst)
    THEN JsMin(maxOverscanLast, oldLast)
    ELSE IF JsLt(maxOverscanLast, oldFirst)
    THEN optOverscanLast
    ELSE IF JsGt(JsSub(maxOverscanLast, oldFirst), JsSub(oldFirst, optOverscanLast))
    THEN maxOverscanLast
    ELSE optOverscanLast

\* A variant of NewLast whose second rule shrinks the range to the optimal
\* overscan.
NewLastShrinksToOptimal(oldFirst, oldLast, minOverscanLast, optOverscanLast, maxOverscanLast) ==
    IF JsGt(minOverscanLast, oldLast)
    THEN optOverscanLast
    ELSE IF JsLt(minOverscanLast, oldLast) /\ JsGt(minOverscanLast, oldFirst)
    THEN JsMin(optOverscanLast, oldLast)
    ELSE IF JsLt(maxOverscanLast, oldFirst)
    THEN optOverscanLast
    ELSE IF JsGt(JsSub(maxOverscanLast, oldFirst), JsSub(oldFirst, optOverscanLast))
    THEN maxOverscanLast
    ELSE optOverscanLast

\* The decision on newLast.
NewLast(oldFirst, oldLast, minOverscanLast, optOverscanLast, maxOverscanLast) ==
    IF JsGt(minOverscanLast, oldLast)
    THEN optOverscanLast
    ELSE IF JsLt(minOverscanLast, oldLast) /\ JsGt(minOverscanLast, oldFirst)
    THEN JsMin(maxOverscanLast, oldLast)
    ELSE IF JsLt(maxOverscanLast, oldFirst)
    THEN optOverscanLast
    ELSE IF JsGt(JsSub(maxOverscanLast, oldFirst), JsSub(oldFirst, optOverscanLast))
    THEN maxOverscanLast
    ELSE optOverscanLast

\* A variant of Diff that counts one item too many when it removes at the end.
DiffRemovesOneMoreAtEnd(a, oldFirst, oldLast, newFirst, newLast) ==
    IF JsEq(newFirst, oldFirst) /\ JsEq(newLast, oldLast)
    THEN [a EXCEPT !.noAddRemoveNeeded = TRUE]
    ELSE IF JsGt(newFirst, oldLast) \/ JsLt(newLast, oldFirst)
    THEN [a EXCEPT !.neeedToRemoveAllItems = TRUE]
    ELSE [a EXCEPT
            !.countToAddAtStart =
                IF JsLt(newFirst, oldFirst) THEN oldFirst - newFirst ELSE 0,
            !.countToRemoveAtStart =
                IF JsGt(newFirst, oldFirst) THEN newFirst - oldFirst ELSE 0,
            !.countToRemoveAtEnd =
                IF JsLt(newLast, oldLast) THEN oldLast - newLast + 1 ELSE 0,
            !.countToAddAtEnd =
                IF JsGt(newLast, oldLast) THEN newLast - oldLast ELSE 0]

\* A variant of Diff that takes the ranges for disjoint as soon as the new
\* range starts after the first old item.
DiffDisjointAfterOldFirst(a, oldFirst, oldLast, newFirst, newLast) ==
    IF JsEq(newFirst, oldFirst) /\ JsEq(newLast, oldLast)
    THEN [a EXCEPT !.noAddRemoveNeeded = TRUE]
    ELSE IF JsGt(newFirst, oldFirst) \/ JsLt(newLast, oldFirst)
    THEN [a EXCEPT !.neeedToRemoveAllItems = TRUE]
    ELSE [a EXCEPT
            !.countToAddAtStart =
                IF JsLt(newFirst, oldFirst) THEN oldFirst - newFirst ELSE 0,
            !.countToRemoveAtStart =
                IF JsGt(newFirst, oldFirst) THEN newFirst - oldFirst ELSE 0,
            !.countToRemoveAtEnd =
                IF JsLt(newLast, oldLast) THEN oldLast - newLast ELSE 0,
            !.countToAddAtEnd =
                IF JsGt(newLast, oldLast) THEN newLast - oldLast ELSE 0]

\* The last part of measure: the flags and counts that lead from the old
\* range to the new one, written into the action a.
Diff(a, oldFirst, oldLast, newFirst, newLast) ==
    IF JsEq(newFirst, oldFirst) /\ JsEq(newLast, oldLast)
    THEN [a EXCEPT !.noAddRemoveNeeded = TRUE]
    ELSE IF JsGt(newFirst, oldLast) \/ JsLt(newLast, oldFirst)
    THEN [a EXCEPT !.neeedToRemoveAllItems = TRUE]
    ELSE [a EXCEPT
            !.countToAddAtStart =
                IF JsLt(newFirst, oldFirst) THEN oldFirst - newFirst ELSE 0,
            !.countToRemoveAtStart =
                IF JsGt(newFirst, oldFirst) THEN newFirst - oldFirst ELSE 0,
            !.countToRemoveAtEnd =
                IF JsLt(newLast, oldLast) THEN oldLast - newLast ELSE 0,
            !.countToAddAtEnd =
                IF JsGt(newLast, oldLast) THEN newLast - oldLast ELSE 0]

\* A variant of Entry that looks at oldCount before it looks at totalCount.
EntryOldCountFirst(totalCount, oldCount) ==
    IF JsEq(oldCount, 0) THEN "throw"
    ELSE IF totalCount = 0 THEN "empty"
    ELSE "measure"

\* The guard at the head of measure: which of the two early exits is taken.
Entry(totalCount, oldCount) ==
    IF totalCount = 0 THEN "empty"
    ELSE IF JsEq(oldCount, 0) THEN "throw"
    ELSE "measure"

\* ScrollAxis.measure on the axis object self.
Measure(self, totalCount, oldFirst, oldCount, oldAvgItemSize, frameSize, wallSize, subsetSize, scrollPos) ==
    LET entry == Entry(totalCount, oldCount)
        oldLast == JsSub(JsAdd(oldFirst, oldCount), 1)
        totalLast == totalCount - 1
        newAvgItemSize == NewAvgItemSize(oldCount, oldAvgItemSize, subsetSize)
        fitFirst == FitFirst(totalCount, newAvgItemSize, scrollPos)
        fitLast == FitLast(totalCount, newAvgItemSize, frameSize, scrollPos)
        newFirst == NewFirst(oldFirst, oldLast,
                        OverscanFirst(fitFirst, self.minOverscan),
                        OverscanFirst(fitFirst, self.optOverscan),
                        OverscanFirst(fitFirst, self.maxOverscan))
        newLast == NewLast(oldFirst, oldLast,
                        OverscanLast(fitLast, self.minOverscan, totalLast),
                        OverscanLast(fitLast, self.optOverscan, totalLast),
                        OverscanLast(fitLast, self.maxOverscan, totalLast))
        known == [ScrollAxisAction EXCEPT
                    !.newFirst = newFirst,
                    !.newLast = newLast,
                    !.newAvgItemSize = newAvgItemSize,
                    !.newWallSize = CeilMul(totalCount, newAvgItemSize),
                    !.newSubsetOffset = CeilMul(newFirst, newAvgItemSize)]
    IN  CASE entry = "empty" -> ScrollAxisAction
          [] entry = "throw" -> [ScrollAxisAction EXCEPT !.threw = TRUE]
          [] OTHER -> Diff(known, oldFirst, oldLast, newFirst, newLast)

(***************************************************************************)
(* VTable, VRow, VCell                                                     *)
(*                                                                         *)
(* A VTable object is the record of its fields; a method that changes the  *)
(* object is an operator from the object to the changed object.  The field *)
(* "error" is not a field of the class: it records that the latest run of *)
(* measureAndUpdate ended with an exception.                               *)
(***************************************************************************)

\* The value undefined of an optional property.
Undefined == <<>>

\* Number of rows and of columns of the initial window of willMount.
InitialWindow == 10

\* The overscan used when the properties give none.
DefaultMinOverscan == 3

DefaultOptOverscan == 6

DefaultMaxOverscan == 12

\* The hard-coded row height and column width of the constructor.
InitialRowHeight == 25

InitialColWidth == 80

\* VTableProps: getCellCallback is taken to return the pair of its arguments,
\* so a cell's data tells which cell of the data set it shows.
VTableProps(totalRowCount, totalColCount, rowOverscan, colOverscan) ==
    [ totalRowCount |-> totalRowCount,
      totalColCount |-> totalColCount,
      rowOverscan   |-> rowOverscan,
      colOverscan   |-> colOverscan ]

\* VTable.getCellData
getCellData(row, col) == <<row, col>>

\* new VCell( data)
VCell(data) == [data |-> data]

\* new VRow()
VRow == [cells |-> <<>>]

\* VRow.removeAllCells
removeAllCells(vrow) == [vrow EXCEPT !.cells = <<>>]

\* VRow.removeCellsAtStart
removeCellsAtStart(vrow, count) == [vrow EXCEPT !.cells = JsSplice(@, 0, count, <<>>)]

\* VRow.removeCellsAtEnd
removeCellsAtEnd(vrow, count) ==
    [vrow EXCEPT !.cells = JsSplice(@, Len(@) - count, count, <<>>)]

\* The values i takes in "for (i = a; i >= b; i--)", in order.
LoopDownSeq(a, b) ==
    IF IsNum(a) /\ IsNum(b) /\ a >= b THEN [k \in 1..(a - b + 1) |-> a - k + 1] ELSE <<>>

\* The loop "for (j = ...; ...; j++) vrow.addCell( getCellData( i, j))", cols
\* holding the values of j in the order the loop takes them: VRow.addCell
\* pushes a new cell at the end of the row.
AddCells(vrow, i, cols) ==
    [vrow EXCEPT !.cells =
        @ \o [m \in 1..Len(cols) |-> VCell(getCellData(i, cols[m]))]]

\* The loop "for (j = ...; ...; j--) vrow.insertCell( getCellData( i, j))", cols
\* holding the values of j in the order the loop takes them: VRow.insertCell
\* puts a new cell at index 0, so the cell inserted last comes first.
InsertCells(vrow, i, cols) ==
    [vrow EXCEPT !.cells =
        [m \in 1..Len(cols) |-> VCell(getCellData(i, cols[Len(cols) - m + 1]))] \o @]

\* VTable.rowCount and VTable.colCount
rowCount(self) == JsAdd(JsSub(self.lastRow, self.firstRow), 1)

colCount(self) == JsAdd(JsSub(self.lastCol, self.firstCol), 1)

\* new VTable( props)
NewVTable(p) ==
    [ avgRowHeight     |-> FracZero,
      avgColWidth      |-> FracZero,
      latestScrollTop  |-> -1,
      latestScrollLeft |-> -1,
      wallHeight       |-> p.totalRowCount * InitialRowHeight,
      wallWidth        |-> p.totalColCount * InitialColWidth,
      minRowOverscan   |-> IF p.rowOverscan # Undefined THEN p.rowOverscan[1] ELSE DefaultMinOverscan,
      optRowOverscan   |-> IF p.rowOverscan # Undefined THEN p.rowOverscan[2] ELSE DefaultOptOverscan,
      maxRowOverscan   |-> IF p.rowOverscan # Undefined THEN p.rowOverscan[3] ELSE DefaultMaxOverscan,
      minColOverscan   |-> IF p.colOverscan # Undefined THEN p.colOverscan[1] ELSE DefaultMinOverscan,
      optColOverscan   |-> IF p.colOverscan # Undefined THEN p.colOverscan[2] ELSE DefaultOptOverscan,
      maxColOverscan   |-> IF p.colOverscan # Undefined THEN p.colOverscan[3] ELSE DefaultMaxOverscan,
      mounted          |-> FALSE,
      rows             |-> <<>>,
      firstRow         |-> 0,
      lastRow          |-> -1,
      firstCol         |-> 0,
      lastCol          |-> -1,
      vAxis            |-> NewScrollAxis(0, 0, 0),
      hAxis            |-> NewScrollAxis(0, 0, 0),
      error            |-> FALSE ]

\* A new row of the data-set row i with the cells of the columns cols.
NewRow(i, cols) == AddCells(VRow, i, cols)

\* VTable.willMount
willMount(self, p) ==
    LET rows0 == IF p.totalRowCount < InitialWindow THEN p.totalRowCount ELSE InitialWindow
        cols0 == IF p.totalColCount < InitialWindow THEN p.totalColCount ELSE InitialWindow
    IN  [self EXCEPT
            !.mounted  = TRUE,
            !.rows     = [k \in 1..rows0 |-> NewRow(k - 1, LoopSeq(0, cols0 - 1))],
            !.firstRow = 0,
            !.lastRow  = rows0 - 1,
            !.firstCol = 0,
            !.lastCol  = cols0 - 1,
            !.vAxis    = NewScrollAxis(self.minRowOverscan, self.optRowOverscan, self.maxRowOverscan),
            !.hAxis    = NewScrollAxis(self.minColOverscan, self.optColOverscan, self.maxColOverscan)]

\* The rows a loop over the data-set rows is[1], is[2], ... appends.
NewRows(is, cols) == [k \in 1..Len(is) |-> NewRow(is[k], cols)]

\* VTable.updateRows
updateRows(self, axisAction) ==
    LET cols == LoopSeq(self.firstCol, self.lastCol)
        afterRemoveAtEnd ==
            IF axisAction.countToRemoveAtEnd > 0
            THEN JsSplice(self.rows, JsSub(rowCount(self), axisAction.countToRemoveAtEnd),
                          axisAction.countToRemoveAtEnd, <<>>)
            ELSE self.rows
        afterRemoveAtStart ==
            IF axisAction.countToRemoveAtStart > 0
            THEN JsSplice(afterRemoveAtEnd, 0, axisAction.countToRemoveAtStart, <<>>)
            ELSE afterRemoveAtEnd
        afterAddAtEnd ==
            IF axisAction.countToAddAtEnd > 0
            THEN afterRemoveAtStart \o
                 NewRows(LoopSeq(JsAdd(self.lastRow, 1), axisAction.newLast), cols)
            ELSE afterRemoveAtStart
        afterAddAtStart ==
            IF axisAction.countToAddAtStart > 0
            THEN NewRows(LoopSeq(axisAction.newFirst, JsSub(self.firstRow, 1)), cols) \o
                 afterAddAtEnd
            ELSE afterAddAtEnd
    IN  [self EXCEPT
            !.rows = IF axisAction.neeedToRemoveAllItems
                     THEN NewRows(LoopSeq(axisAction.newFirst, axisAction.newLast), cols)
                     ELSE afterAddAtStart,
            !.firstRow = axisAction.newFirst,
            !.lastRow = axisAction.newLast]

\* The loops "for (i = firstRow; i <= lastRow; i++) { vrow = rows[i - firstRow]; ... }"
\* of updateCols visit the rows at the indices 0 .. rowCount - 1 and end with a
\* TypeError at the first index that has no row.
RowsVisited(self) == Len(LoopSeq(self.firstRow, self.lastRow))

RowLoopThrows(self) == RowsVisited(self) > Len(self.rows)

\* What updateCols does to the row vrow, which is rows[i - firstRow] when
\* visited is true and a row the loops over firstRow..lastRow do not reach
\* otherwise.  updateCols runs one loop over the rows for each step; the steps
\* of a row do not depend on the other rows, except that a loop that ended
\* with a TypeError keeps the later loops from running.  The loop that adds
\* cells at the start counts j down from addAtStartFrom.
UpdateCellsFrom(addAtStartFrom, self, axisAction, vrow, i, visited) ==
    LET afterRemoveAtEnd ==
            IF axisAction.countToRemoveAtEnd > 0
            THEN removeCellsAtEnd(vrow, axisAction.countToRemoveAtEnd)
            ELSE vrow
        afterRemoveAtStart ==
            IF axisAction.countToRemoveAtStart > 0
            THEN removeCellsAtStart(afterRemoveAtEnd, axisAction.countToRemoveAtStart)
            ELSE afterRemoveAtEnd
        afterAddAtEnd ==
            IF axisAction.countToAddAtEnd > 0 /\ visited
            THEN AddCells(afterRemoveAtStart, i,
                          LoopSeq(JsAdd(self.lastCol, 1), axisAction.newLast))
            ELSE afterRemoveAtStart
        addAtEndThrew == axisAction.countToAddAtEnd > 0 /\ RowLoopThrows(self)
        afterAddAtStart ==
            IF axisAction.countToAddAtStart > 0 /\ visited /\ ~addAtEndThrew
            THEN InsertCells(afterAddAtEnd, i,
                             LoopDownSeq(addAtStartFrom, axisAction.newFirst))
            ELSE afterAddAtEnd
    IN  IF axisAction.neeedToRemoveAllItems
        THEN IF visited
             THEN AddCells(removeAllCells(vrow), i,
                           LoopSeq(axisAction.newFirst, axisAction.newLast))
             ELSE vrow
        ELSE afterAddAtStart

\* What updateCols of the VTable class of lines 1457-1910 does to a row:
\* "for (j = this.firstCol - 1; j >= axisAction.newFirst; j--)".
UpdateCells(self, axisAction, vrow, i, visited) ==
    UpdateCellsFrom(JsSub(self.firstCol, 1), self, axisAction, vrow, i, visited)

\* updateCols, which is the same in the three VTable classes of the file but
\* for the value the loop that adds cells at the start counts down from.
updateColsFrom(addAtStartFrom, self, axisAction) ==
    LET threw ==
            /\ RowLoopThrows(self)
            /\ \/ axisAction.neeedToRemoveAllItems
               \/ axisAction.countToAddAtEnd > 0
               \/ axisAction.countToAddAtStart > 0
        rows == [k \in 1..Len(self.rows) |->
                    UpdateCellsFrom(addAtStartFrom, self, axisAction, self.rows[k],
                                    JsAdd(self.firstRow, k - 1), k <= RowsVisited(self))]
    IN  IF threw
        THEN [self EXCEPT !.rows = rows, !.error = TRUE]
        ELSE [self EXCEPT !.rows = rows,
                          !.firstCol = axisAction.newFirst,
                          !.lastCol = axisAction.newLast]

\* VTable.updateCols (the class of lines 1457-1910)
updateCols(self, axisAction) == updateColsFrom(JsSub(self.firstCol, 1), self, axisAction)

\* VTable.updateCols of the class of lines 281-693:
\* "for (j = this.firstCol; j >= axisAction.newFirst; j--)".
updateColsFirstVariant(self, axisAction) == updateColsFrom(self.firstCol, self, axisAction)

\* VTable.updateCols of the class of lines 844-1255:
\* "for (j = this.firstCol - 1; j >= axisAction.newFirst; j--)".
updateColsSecondVariant(self, axisAction) ==
    updateColsFrom(JsSub(self.firstCol, 1), self, axisAction)

\* What measureAndUpdate reads from the document: the frame's client
\* rectangle and scroll position, the wall's rectangle, and the table's
\* rectangle with its offset from the wall.
Geometry(frameHeight, frameWidth, scrollTop, scrollLeft, wallHeight, wallWidth, tableHeight, tableWidth, tableTop, tableLeft) ==
    [ frameHeight |-> frameHeight,
      frameWidth  |-> frameWidth,
      scrollTop   |-> scrollTop,
      scrollLeft  |-> scrollLeft,
      wallHeight  |-> wallHeight,
      wallWidth   |-> wallWidth,
      tableHeight |-> tableHeight,
      tableWidth  |-> tableWidth,
      tableTop    |-> tableTop,
      tableLeft   |-> tableLeft ]

\* The function measureAndUpdate passes to callMeAfterUpdate for an axis.
GeometryWrite(dir, axisAction) ==
    [ dir             |-> dir,
      newSubsetOffset |-> axisAction.newSubsetOffset,
      newWallSize     |-> axisAction.newWallSize ]

\* mim.Component.callMeAfterUpdate( func): func is kept, to run once after the
\* update, behind the functions passed before it.
callMeAfterUpdate(pending, func) == Append(pending, func)

\* The outcome of a part of measureAndUpdate: the object after it and the
\* functions it passed to callMeAfterUpdate.
Outcome(self, writes) == [self |-> self, writes |-> writes]

\* A variant of RowsMeasured that passes the geometry write to
\* callMeAfterUpdate whatever the measured wall and offset are.
RowsMeasuredAlwaysWrites(self, g, vAxisAction) ==
    LET measured == [self EXCEPT !.avgRowHeight = vAxisAction.newAvgItemSize,
                                 !.latestScrollTop = g.scrollTop]
    IN  IF vAxisAction.threw
        THEN Outcome([self EXCEPT !.error = TRUE], <<>>)
        ELSE Outcome(IF ~vAxisAction.noAddRemoveNeeded
                     THEN updateRows(measured, vAxisAction) ELSE measured,
                     callMeAfterUpdate(<<>>, GeometryWrite("v", vAxisAction)))

\* The vertical half of measureAndUpdate once vAxis.measure returned (or threw).
RowsMeasured(self, g, vAxisAction) ==
    LET measured == [self EXCEPT !.avgRowHeight = vAxisAction.newAvgItemSize,
                                 !.latestScrollTop = g.scrollTop]
    IN  IF vAxisAction.threw
        THEN Outcome([self EXCEPT !.error = TRUE], <<>>)
        ELSE Outcome(IF ~vAxisAction.noAddRemoveNeeded
                     THEN updateRows(measured, vAxisAction) ELSE measured,
                     IF \/ JsNe(vAxisAction.newWallSize, g.wallHeight)
                        \/ JsNe(vAxisAction.newSubsetOffset, g.tableTop)
                     THEN callMeAfterUpdate(<<>>, GeometryWrite("v", vAxisAction))
                     ELSE <<>>)

\* The value that stands for the action of an axis measureAndUpdate did not
\* measure.
NotMeasured == [ScrollAxisAction EXCEPT !.noAddRemoveNeeded = TRUE,
                                         !.neeedToRemoveAllItems = TRUE]

\* A variant of VAxisAction that measures the rows wherever the frame is.
VAxisActionAlways(self, p, g) ==
    Measure(self.vAxis, p.totalRowCount, self.firstRow, rowCount(self),
            self.avgRowHeight, g.frameHeight, g.wallHeight, g.tableHeight,
            g.scrollTop)

\* The vAxisAction of measureAndUpdate: what vAxis.measure returns, when the
\* frame is at another vertical position than at the latest measurement.
VAxisAction(self, p, g) ==
    IF JsEq(self.latestScrollTop, g.scrollTop)
    THEN NotMeasured
    ELSE Measure(self.vAxis, p.totalRowCount, self.firstRow, rowCount(self),
                 self.avgRowHeight, g.frameHeight, g.wallHeight, g.tableHeight,
                 g.scrollTop)

\* The vertical half of measureAndUpdate; the set holds its one outcome.
MeasureRows(self, p, g) ==
    { IF vAxisAction = NotMeasured
      THEN Outcome(self, <<>>)
      ELSE RowsMeasured(self, g, vAxisAction) :
        vAxisAction \in {VAxisAction(self, p, g)} }

\* The horizontal half of measureAndUpdate once hAxis.measure returned (or threw).
ColsMeasured(self, g, hAxisAction) ==
    LET measured == [self EXCEPT !.avgColWidth = hAxisAction.newAvgItemSize,
                                 !.latestScrollLeft = g.scrollLeft]
    IN  IF hAxisAction.threw
        THEN Outcome([self EXCEPT !.error = TRUE], <<>>)
        ELSE IF ~hAxisAction.noAddRemoveNeeded /\ RowLoopThrows(self)
        THEN Outcome(updateCols(measured, hAxisAction), <<>>)
        ELSE Outcome(IF ~hAxisAction.noAddRemoveNeeded
                     THEN updateCols(measured, hAxisAction) ELSE measured,
                     IF \/ JsNe(hAxisAction.newWallSize, g.wallWidth)
                        \/ JsNe(hAxisAction.newSubsetOffset, g.tableLeft)
                     THEN callMeAfterUpdate(<<>>, GeometryWrite("h", hAxisAction))
                     ELSE <<>>)

\* The hAxisAction of measureAndUpdate: what hAxis.measure returns, when the
\* frame is at another horizontal position than at the latest measurement.
HAxisAction(self, p, g) ==
    IF JsEq(self.latestScrollLeft, g.scrollLeft)
    THEN NotMeasured
    ELSE Measure(self.hAxis, p.totalColCount, self.firstCol, colCount(self),
                 self.avgColWidth, g.frameWidth, g.wallWidth, g.tableWidth,
                 g.scrollLeft)

\* The horizontal half of measureAndUpdate; the set holds its one outcome.
MeasureCols(self, p, g) ==
    { IF hAxisAction = NotMeasured
      THEN Outcome(self, <<>>)
      ELSE ColsMeasured(self, g, hAxisAction) :
        hAxisAction \in {HAxisAction(self, p, g)} }

\* A run of measureAndUpdate: its outcome, and the object as it was between
\* the vertical and the horizontal half (after line 1640).
Pass(outcome, mid) == [self |-> outcome.self, writes |-> outcome.writes, mid |-> mid]

\* VTable.measureAndUpdate; the set holds its one run.  An exception in the
\* vertical half ends the run.
measureAndUpdate(self, p, g) ==
    IF JsEq(rowCount(self), 0) \/ JsEq(colCount(self), 0)
    THEN {Pass(Outcome([self EXCEPT !.error = FALSE], <<>>), [self EXCEPT !.error = FALSE])}
    ELSE UNION { IF v.self.error
                 THEN {Pass(v, v.self)}
                 ELSE { Pass(Outcome(h.self, v.writes \o h.writes), v.self) :
                            h \in MeasureCols(v.self, p, g) } :
                 v \in MeasureRows([self EXCEPT !.error = FALSE], p, g) }

(***************************************************************************)
(* Bounds of the model                                                     *)
(***************************************************************************)

\* Overscan values given to a constructor are 0..MaxOverscan.
MaxOverscan == 2

\* Data sets have 0..MaxTotal items, and scroll positions are 0..MaxTotal pixels.
MaxTotal == 5

\* The caller's old range has 0..MaxOldCount items.
MaxOldCount == 3

\* Item sizes and extents measured by the caller are 0..MaxExtent pixels.
MaxExtent == 2

\* Frame sizes are 0..MaxFrame pixels.
MaxFrame == 1

\* A ScrollAxis is called at most MaxCalls times in a row.
MaxCalls == 3

\* The data set of a VTable has up to MaxTableTotal rows and columns.
MaxTableTotal == 12

\* The rendered rows and columns of a VTable are 0..MaxItemSize pixels each.
MaxItemSize == 1

\* measureAndUpdate of a VTable runs at most MaxPasses times.
MaxPasses == 2

\* The frame reports at most MaxBurst scroll events between two runs of
\* measureAndUpdate.
MaxBurst == 2

\* Overscan values given to a constructor are as low as -MaxNegOverscan.
MaxNegOverscan == 1

\* The frame of the example scenario is scrolled to 0..MaxScrollPos pixels.
MaxScrollPos == 5000

(***************************************************************************)
(* State                                                                   *)
(***************************************************************************)

VARIABLES
    axis,        \* a ScrollAxis object
    args,        \* the arguments of the latest (before the first: the coming) call of axis.measure
    ret,         \* what that call returned
    prev,        \* the arguments and the result of the call before it
    calls,       \* how many calls of axis.measure were made
    props,       \* the VTableProps of a VTable component
    vt,          \* the fields of that VTable component
    dom,         \* the inline geometry of its wall and table elements
    scheduled,   \* the functions passed to callMeBeforeUpdate that did not run yet
    afterUpdate, \* the geometry writes scheduled to run after the update
    passes,      \* how many times measureAndUpdate ran
    latest,      \* the latest run of measureAndUpdate: its axis actions and its middle
    events       \* how many scroll events the frame reported since that run

axisVars == <<axis, args, ret, prev, calls>>

tableVars == <<props, vt, dom, scheduled, afterUpdate, passes, latest, events>>

vars == <<axis, args, ret, prev, calls, props, vt, dom, scheduled, afterUpdate, passes, latest, events>>

Int2Frac(k) == <<k, 1>>

\* count * q: the extent of count items of size q
FracTimes(count, q) ==
    IF IsNum(count) /\ FracIsNum(q) THEN Frac(count * q[1], q[2]) ELSE FracNaN

Args(totalCount, oldFirst, oldCount, oldAvgItemSize, frameSize, wallSize, subsetSize, scrollPos) ==
    [ totalCount     |-> totalCount,
      oldFirst       |-> oldFirst,
      oldCount       |-> oldCount,
      oldAvgItemSize |-> oldAvgItemSize,
      frameSize      |-> frameSize,
      wallSize       |-> wallSize,
      subsetSize     |-> subsetSize,
      scrollPos      |-> scrollPos ]

\* axis.measure applied to a record of arguments
MeasureArgs(self, a) ==
    Measure(self, a.totalCount, a.oldFirst, a.oldCount, a.oldAvgItemSize,
            a.frameSize, a.wallSize, a.subsetSize, a.scrollPos)

\* The number of items of the range an action asks for.
NewCount(r) == JsAdd(JsSub(r.newLast, r.newFirst), 1)

\* The arguments of a call that takes the result r of the call with the
\* arguments a as its old state (as VTable.measureAndUpdate does with
\* firstRow, rowCount and avgRowHeight).
NextArgs(a, r, wallSize, subsetSize, scrollPos) ==
    [a EXCEPT !.oldFirst = r.newFirst,
              !.oldCount = NewCount(r),
              !.oldAvgItemSize = r.newAvgItemSize,
              !.wallSize = wallSize,
              !.subsetSize = subsetSize,
              !.scrollPos = scrollPos]

\* Any non-negative overscan configuration, in any order: the constructor checks nothing.
AnyAxis ==
    { NewScrollAxis(mn, op, mx) :
        mn \in 0..MaxOverscan, op \in 0..MaxOverscan, mx \in 0..MaxOverscan }

ValidAxis(self) ==
    /\ 0 <= self.minOverscan
    /\ self.minOverscan <= self.optOverscan
    /\ self.optOverscan <= self.maxOverscan

\* Arguments a caller can pass: any data set size, any old range and old
\* item size, any geometry; the wall has the size the old item size asks for.
AnyArgs ==
    { Args(totalCount, oldFirst, oldCount, Int2Frac(oldAvg), frameSize,
           totalCount * oldAvg, Int2Frac(subsetSize), scrollPos) :
        totalCount \in 0..MaxTotal, oldFirst \in 0..(MaxTotal - 1),
        oldCount \in 0..MaxOldCount, oldAvg \in 0..MaxExtent,
        frameSize \in 0..MaxFrame, subsetSize \in 0..MaxExtent,
        scrollPos \in 0..MaxTotal }

\* The inline geometry of the wall and the table before anything is written
\* to it: the wall, whose only child is positioned absolutely, has no height
\* and the width its parent gives it (Auto), and the table sits at the wall's
\* origin.  The frame is not scrolled.
Auto == -1

NewDom ==
    [ wallHeight |-> 0, wallWidth |-> Auto, tableTop |-> 0, tableLeft |-> 0,
      scrollTop |-> 0, scrollLeft |-> 0 ]

\* The geometry of a document in which nothing is rendered.
NoGeometry == Geometry(0, 0, 0, 0, 0, 0, FracZero, FracZero, 0, 0)

\* What is recorded of a run of measureAndUpdate: whether it got past its
\* first test, the object between its two halves, the two axis actions, how
\* many scroll events the frame had reported since the run before it, the
\* geometry the run read from the document, and whether the frame had
\* another size than at the run before it.
Latest(ran, mid, vAxisAction, hAxisAction, burst, g, resized) ==
    [ ran |-> ran, mid |-> mid, vAxisAction |-> vAxisAction, hAxisAction |-> hAxisAction,
      burst |-> burst, g |-> g, resized |-> resized ]

\* A VTable just constructed with the properties p.
Constructed(p) ==
    /\ props = p
    /\ vt = NewVTable(p)
    /\ dom = NewDom
    /\ scheduled = <<>>
    /\ afterUpdate = <<>>
    /\ passes = 0
    /\ latest = Latest(FALSE, NewVTable(p), NotMeasured, NotMeasured, 0, NoGeometry, FALSE)
    /\ events = 0

\* No table is used.
NoTable == Constructed(VTableProps(0, 0, Undefined, Undefined))

Init ==
    /\ axis \in AnyAxis
    /\ args \in AnyArgs
    /\ ret = ScrollAxisAction
    /\ prev = [args |-> args, ret |-> ret]
    /\ calls = 0
    /\ NoTable

\* The first call of axis.measure.
Call ==
    /\ calls = 0
    /\ ret' = MeasureArgs(axis, args)
    /\ calls' = 1
    /\ UNCHANGED <<axis, args, prev>>
    /\ UNCHANGED tableVars

Next == Call

\* Single calls of measure on all inputs.
Spec == Init /\ [][Next]_vars

(***************************************************************************)
(* Properties of ScrollAxis.measure                                        *)
(***************************************************************************)

\* What the latest call computed on its way, from its arguments.
totalLast == args.totalCount - 1

oldLast == JsSub(JsAdd(args.oldFirst, args.oldCount), 1)

avgItemSize == NewAvgItemSize(args.oldCount, args.oldAvgItemSize, args.subsetSize)

fitFirst == FitFirst(args.totalCount, avgItemSize, args.scrollPos)

fitLast == FitLast(args.totalCount, avgItemSize, args.frameSize, args.scrollPos)

\* The latest call ran the measurement and returned its action.
Measured == calls >= 1 /\ args.totalCount > 0 /\ ~ret.threw

PartialDiff(r) == ~r.noAddRemoveNeeded /\ ~r.neeedToRemoveAllItems

\* C1 (range validity): a call with totalCount > 0, oldCount > 0, a valid
\* overscan configuration, scrollPos >= 0, frameSize >= 0 and a positive
\* resulting average item size returns 0 <= newFirst <= newLast <= totalCount - 1,
\* whatever the old range is.
C1_RangeValid ==
    ( /\ calls >= 1
      /\ args.totalCount > 0
      /\ args.oldCount > 0
      /\ ValidAxis(axis)
      /\ args.scrollPos >= 0
      /\ args.frameSize >= 0
      /\ FracPos(avgItemSize) )
    => ( /\ ~ret.threw
         /\ JsLe(0, ret.newFirst)
         /\ JsLe(ret.newFirst, ret.newLast)
         /\ JsLe(ret.newLast, args.totalCount - 1) )

\* A measurement with a positive item size whose old range lies wholly
\* outside the viewport, before it or after it.
C1_Witness ==
    /\ Measured
    /\ ValidAxis(axis)
    /\ FracPos(avgItemSize)
    /\ JsGt(args.oldFirst, fitLast + axis.maxOverscan)
    /\ ret.newFirst < ret.newLast

\* C3 as stated (diff consistency for every action with totalCount > 0),
\* here for the calls with a positive resulting average item size only:
\* newFirst = oldFirst + countToRemoveAtStart - countToAddAtStart and
\* newLast = oldLast + countToAddAtEnd - countToRemoveAtEnd.
C3_DiffConsistentAlways ==
    (Measured /\ FracPos(avgItemSize)) =>
        /\ ret.newFirst = args.oldFirst + ret.countToRemoveAtStart - ret.countToAddAtStart
        /\ ret.newLast = oldLast + ret.countToAddAtEnd - ret.countToRemoveAtEnd

\* C3 as amended: the counts lead from the old range to the new one for every
\* action with totalCount > 0 and a positive resulting average item size that
\* is not replaceAll.
C3_DiffConsistent ==
    ( /\ Measured
      /\ FracPos(avgItemSize)
      /\ ~ret.neeedToRemoveAllItems )
    => /\ ret.newFirst = args.oldFirst + ret.countToRemoveAtStart - ret.countToAddAtStart
       /\ ret.newLast = oldLast + ret.countToAddAtEnd - ret.countToRemoveAtEnd

\* A partial diff that removes items at the start and adds items at the end.
C3_Witness ==
    /\ Measured
    /\ FracPos(avgItemSize)
    /\ ret.countToRemoveAtStart > 0
    /\ ret.countToAddAtEnd > 0

\* C4 (zero data set): with totalCount = 0 the call returns an action that
\* tells the caller to neither add nor remove items, whose range is empty and
\* whose sizes are 0.
C4_ZeroDataset ==
    (calls >= 1 /\ args.totalCount = 0)
    => ( /\ ~ret.threw
         /\ ret.noAddRemoveNeeded
         /\ ~ret.neeedToRemoveAllItems
         /\ NewCount(ret) = 0
         /\ ret.newWallSize = 0
         /\ ret.newSubsetOffset = 0
         /\ ret.newAvgItemSize = FracZero )

\* C5 (one kind of diff): every returned action is noChange, or replaceAll,
\* or carries non-negative counts of which one at least is not 0; a flag
\* excludes the other flag and the counts; adding and removing at the same
\* end exclude each other.
C5_OneKindOfDiff ==
    (calls >= 1 /\ ~ret.threw)
    => LET counts == << ret.countToRemoveAtStart, ret.countToRemoveAtEnd,
                        ret.countToAddAtStart, ret.countToAddAtEnd >>
           someCount == \E i \in 1..4 : counts[i] # 0
       IN  /\ \A i \in 1..4 : counts[i] >= 0
           /\ ~(ret.noAddRemoveNeeded /\ ret.neeedToRemoveAllItems)
           /\ (ret.noAddRemoveNeeded \/ ret.neeedToRemoveAllItems) => ~someCount
           /\ ret.noAddRemoveNeeded \/ ret.neeedToRemoveAllItems \/ someCount
           /\ ~(ret.countToAddAtStart # 0 /\ ret.countToRemoveAtStart # 0)
           /\ ~(ret.countToAddAtEnd # 0 /\ ret.countToRemoveAtEnd # 0)

\* The fit range lies wholly outside the old range.
FitDisjoint == JsGt(fitFirst, oldLast) \/ JsLt(fitLast, args.oldFirst)

\* The fit range extended by the maximum overscan lies wholly outside the old range.
MaxWindowDisjoint ==
    \/ JsGt(OverscanFirst(fitFirst, axis.maxOverscan), oldLast)
    \/ JsLt(OverscanLast(fitLast, axis.maxOverscan, totalLast), args.oldFirst)

OptimalRange(r) ==
    /\ JsEq(r.newFirst, OverscanFirst(fitFirst, axis.optOverscan))
    /\ JsEq(r.newLast, OverscanLast(fitLast, axis.optOverscan, totalLast))

\* C7 as stated (large jump), here for the calls with a valid overscan
\* configuration and a positive resulting average item size only: when the
\* fit range is disjoint from the old range the diff is replaceAll and the new
\* range is the fit range extended by the optimal overscan.
C7_FitDisjointReplacesAll ==
    (Measured /\ ValidAxis(axis) /\ FracPos(avgItemSize) /\ FitDisjoint)
    => (ret.neeedToRemoveAllItems /\ OptimalRange(ret))

\* C7 as amended: for a valid overscan configuration and a positive resulting
\* average item size, when the fit range extended by the maximum overscan is
\* disjoint from the old range the diff is replaceAll and the new range is the
\* fit range extended by the optimal overscan.
C7_MaxWindowDisjointReplacesAll ==
    (Measured /\ ValidAxis(axis) /\ FracPos(avgItemSize) /\ MaxWindowDisjoint)
    => (ret.neeedToRemoveAllItems /\ OptimalRange(ret))

\* A jump to a window wholly after an old range of more than one item.
C7_Witness ==
    /\ Measured
    /\ ValidAxis(axis)
    /\ FracPos(avgItemSize)
    /\ axis.optOverscan < axis.maxOverscan
    /\ JsGt(OverscanFirst(fitFirst, axis.maxOverscan), oldLast)
    /\ args.oldCount > 1
    /\ ret.neeedToRemoveAllItems

\* C9 (overscan between minimum and maximum): for totalCount > 0, oldCount > 0
\* and a valid overscan configuration,
\* max(fitFirst - maxOverscan, 0) <= newFirst <= max(fitFirst - minOverscan, 0) and
\* min(fitLast + minOverscan, totalLast) <= newLast <= min(fitLast + maxOverscan, totalLast),
\* so the range holds the fit range and at most its items plus 2 * maxOverscan.
C9_OverscanBetweenMinAndMax ==
    (Measured /\ args.oldCount > 0 /\ ValidAxis(axis))
    => ( /\ JsLe(OverscanFirst(fitFirst, axis.maxOverscan), ret.newFirst)
         /\ JsLe(ret.newFirst, OverscanFirst(fitFirst, axis.minOverscan))
         /\ JsLe(OverscanLast(fitLast, axis.minOverscan, totalLast), ret.newLast)
         /\ JsLe(ret.newLast, OverscanLast(fitLast, axis.maxOverscan, totalLast))
         /\ JsLe(ret.newFirst, fitFirst)
         /\ JsLe(fitLast, ret.newLast)
         /\ JsLe(NewCount(ret), (fitLast - fitFirst + 1) + 2 * axis.maxOverscan) )

\* C10 (precondition): a call with oldCount = 0 and totalCount > 0 throws; a
\* call with totalCount = 0 returns the zero-dataset action and does not
\* throw, also with oldCount = 0.
C10_EmptyOldRangeThrows ==
    calls >= 1
    => ( /\ (args.totalCount > 0 /\ args.oldCount = 0) => ret.threw
         /\ args.totalCount = 0 => (~ret.threw /\ ret = ScrollAxisAction)
         /\ (args.totalCount > 0 /\ args.oldCount > 0) => ~ret.threw )

\* A call with an empty old range on a data set that has items: it threw.
C10_Witness ==
    /\ calls >= 1
    /\ args.oldCount = 0
    /\ args.totalCount > 0
    /\ ret.threw

\* Any overscan configuration the constructor accepts, negative values
\* included: it stores the numbers it is given.
SignedAxis ==
    { NewScrollAxis(mn, op, mx) :
        mn \in (-MaxNegOverscan)..MaxOverscan, op \in (-MaxNegOverscan)..MaxOverscan,
        mx \in (-MaxNegOverscan)..MaxOverscan }

\* An axis with any configuration, and a call on the largest data set with a
\* non-empty old range.
ConfigInit ==
    /\ axis \in SignedAxis
    /\ args \in {a \in AnyArgs : a.totalCount = MaxTotal /\ a.oldCount > 0}
    /\ ret = ScrollAxisAction
    /\ prev = [args |-> args, ret |-> ret]
    /\ calls = 0
    /\ NoTable

ConfigNext == Call

\* Single calls of measure on axes of all configurations.
SpecConfig == ConfigInit /\ [][ConfigNext]_vars

\* C11 (configuration error): an overscan configuration that violates
\* 0 <= minOverscan <= optOverscan <= maxOverscan is rejected by the
\* constructor, so measure never runs on an axis with such a configuration.
C11_InvalidOverscanRejected == calls >= 1 => ValidAxis(axis)

\* The boundaries the latest call computed before it filled in its action.
newFirst ==
    NewFirst(args.oldFirst, oldLast,
             OverscanFirst(fitFirst, axis.minOverscan),
             OverscanFirst(fitFirst, axis.optOverscan),
             OverscanFirst(fitFirst, axis.maxOverscan))

newLast ==
    NewLast(args.oldFirst, oldLast,
            OverscanLast(fitLast, axis.minOverscan, totalLast),
            OverscanLast(fitLast, axis.optOverscan, totalLast),
            OverscanLast(fitLast, axis.maxOverscan, totalLast))

\* The test of line 125: the computed boundaries are inverted.
Inverted == JsGt(newFirst, newLast)

\* C12 (computed-range inversion): when the computed boundaries are inverted
\* the returned action does not carry the inverted range and tells the caller
\* to neither add, remove nor replace items.
C12_InvertedRangeIsNoOp ==
    (Measured /\ Inverted)
    => ( /\ ~JsGt(ret.newFirst, ret.newLast)
         /\ ret.noAddRemoveNeeded
         /\ ~ret.neeedToRemoveAllItems
         /\ ret.countToRemoveAtStart = 0
         /\ ret.countToRemoveAtEnd = 0
         /\ ret.countToAddAtStart = 0
         /\ ret.countToAddAtEnd = 0 )

\* The raw size estimate subsetSize / oldCount of line 81.
rawItemSize ==
    IF IsNum(args.oldCount) /\ FracIsNum(args.subsetSize)
    THEN Frac(args.subsetSize[1], args.subsetSize[2] * args.oldCount)
    ELSE FracNaN

\* C13 (degenerate geometry): when the raw estimate subsetSize / oldCount is
\* <= 0 and the previous estimate oldAvgItemSize is > 0, the call keeps the
\* previous estimate (newAvgItemSize = oldAvgItemSize) and the item size it
\* divides by for the fit range is positive.
C13_DegenerateKeepsPrevious ==
    ( /\ Measured
      /\ FracIsNum(rawItemSize)
      /\ ~FracPos(rawItemSize)
      /\ FracPos(args.oldAvgItemSize) )
    => ( /\ ret.newAvgItemSize = args.oldAvgItemSize
         /\ FracPos(avgItemSize) )

\* The example scenario: ScrollAxis(2, 4, 8) over 1000 items of which the
\* 20 items 0..19 are materialized, 20 pixels each by the previous estimate
\* and 400 pixels together, in a frame of 300 pixels.
ExampleAxis == NewScrollAxis(2, 4, 8)

ExampleArgs(scrollPos) ==
    Args(1000, 0, 20, Int2Frac(20), 300, 1000 * 20, Int2Frac(400), scrollPos)

ExampleInit ==
    /\ axis = ExampleAxis
    /\ args \in {ExampleArgs(scrollPos) : scrollPos \in 0..MaxScrollPos}
    /\ ret = ScrollAxisAction
    /\ prev = [args |-> args, ret |-> ret]
    /\ calls = 0
    /\ NoTable

ExampleNext == Call

\* Single calls of measure in the example scenario, at every scroll position.
SpecExample == ExampleInit /\ [][ExampleNext]_vars

\* C14 (example, jump): in the example scenario at scrollPos = 5000 the fit
\* range is 250..265 and the call returns replaceAll with newFirst = 246 and
\* newLast = 269.
C14_JumpExample ==
    (calls >= 1 /\ axis = ExampleAxis /\ args = ExampleArgs(5000))
    => ( /\ ~ret.threw
         /\ fitFirst = 250
         /\ fitLast = 265
         /\ ret.neeedToRemoveAllItems
         /\ ret.newFirst = 246
         /\ ret.newLast = 269 )

\* The call of the example scenario at scrollPos = 5000 returned replaceAll.
C14_Witness ==
    /\ calls >= 1
    /\ axis = ExampleAxis
    /\ args = ExampleArgs(5000)
    /\ ret.neeedToRemoveAllItems

\* C15 as stated (example, steady small scroll): in the example scenario at
\* scrollPos = 20 the call returns a diff that is not replaceAll and that
\* consists of counts, of which countToAddAtEnd or countToRemoveAtStart is
\* positive and none exceeds maxOverscan.
C15_SmallScrollPartialDiff ==
    (calls >= 1 /\ axis = ExampleAxis /\ args = ExampleArgs(20))
    => ( /\ ~ret.threw
         /\ PartialDiff(ret)
         /\ ret.countToAddAtEnd + ret.countToRemoveAtStart > 0
         /\ ret.countToAddAtEnd <= axis.maxOverscan
         /\ ret.countToRemoveAtStart <= axis.maxOverscan )

\* C15 as amended: in the example scenario at scrollPos = 20 the call returns
\* no replaceAll but noAddRemoveNeeded: the range stays 0..19 and the four
\* counts are 0.
C15_SmallScrollNoChange ==
    (calls >= 1 /\ axis = ExampleAxis /\ args = ExampleArgs(20))
    => ( /\ ~ret.threw
         /\ ~ret.neeedToRemoveAllItems
         /\ ret.noAddRemoveNeeded
         /\ ret.newFirst = 0
         /\ ret.newLast = 19
         /\ ret.countToRemoveAtStart = 0
         /\ ret.countToRemoveAtEnd = 0
         /\ ret.countToAddAtStart = 0
         /\ ret.countToAddAtEnd = 0 )

\* The call of the example scenario at scrollPos = 20 returned, the fit range
\* having moved to 1..16.
C15_Witness ==
    /\ calls >= 1
    /\ axis = ExampleAxis
    /\ args = ExampleArgs(20)
    /\ ~ret.threw
    /\ fitFirst = 1
    /\ fitLast = 16

\* C22 (items are added up to the optimal overscan), here for the calls with
\* a valid overscan configuration and a positive resulting average item size
\* only: an action that adds items at the start has
\* newFirst = max(fitFirst - optOverscan, 0), and an action that adds items at
\* the end has newLast = min(fitLast + optOverscan, totalCount - 1).
C22_AddsUpToOptimal ==
    (Measured /\ ValidAxis(axis) /\ FracPos(avgItemSize))
    => ( /\ ret.countToAddAtStart > 0
            => JsEq(ret.newFirst, OverscanFirst(fitFirst, axis.optOverscan))
         /\ ret.countToAddAtEnd > 0
            => JsEq(ret.newLast, OverscanLast(fitLast, axis.optOverscan, totalLast)) )

\* The six candidate boundaries of lines 91-96, for the latest call.
minOverscanFirst == OverscanFirst(fitFirst, axis.minOverscan)

optOverscanFirst == OverscanFirst(fitFirst, axis.optOverscan)

maxOverscanFirst == OverscanFirst(fitFirst, axis.maxOverscan)

minOverscanLast == OverscanLast(fitLast, axis.minOverscan, totalLast)

optOverscanLast == OverscanLast(fitLast, axis.optOverscan, totalLast)

maxOverscanLast == OverscanLast(fitLast, axis.maxOverscan, totalLast)

\* None of the tests of lines 103, 105 and 107 holds: the decision on
\* newFirst is left to the test of line 109.
FallThroughFirst ==
    /\ ~JsLt(minOverscanFirst, args.oldFirst)
    /\ ~(JsGt(minOverscanFirst, args.oldFirst) /\ JsLt(minOverscanFirst, oldLast))
    /\ ~JsGt(maxOverscanFirst, oldLast)

\* None of the tests of lines 114, 116 and 118 holds: the decision on
\* newLast is left to the test of line 120.
FallThroughLast ==
    /\ ~JsGt(minOverscanLast, oldLast)
    /\ ~(JsLt(minOverscanLast, oldLast) /\ JsGt(minOverscanLast, args.oldFirst))
    /\ ~JsLt(maxOverscanLast, args.oldFirst)

\* The distance between two indices.
Distance(a, b) == IF IsNum(a) /\ IsNum(b) THEN Abs(a - b) ELSE NaN

Mirror(i) == JsSub(totalLast, i)

\* The decision on the start boundary, applied to the mirror image of the
\* end candidates and of the old range.
MirroredStartDecision ==
    NewFirst(Mirror(oldLast), Mirror(args.oldFirst),
             Mirror(minOverscanLast), Mirror(optOverscanLast), Mirror(maxOverscanLast))

\* The decision on the end boundary, applied to the mirror image of the
\* start candidates and of the old range.
MirroredEndDecision ==
    NewLast(Mirror(oldLast), Mirror(args.oldFirst),
            Mirror(minOverscanFirst), Mirror(optOverscanFirst), Mirror(maxOverscanFirst))

\* C24 (the two boundary decisions mirror each other): for every call that
\* measures, newLast is totalLast minus the start decision on the mirrored
\* end candidates and old range, and newFirst is totalLast minus the end
\* decision on the mirrored start candidates and old range; newFirst is the
\* same whatever the frame size, which only the end candidates depend on, and
\* newLast is the end decision on the end candidates and the old range alone.
C24_DecisionsMirror ==
    Measured
    => ( /\ ret.newLast = Mirror(MirroredStartDecision)
         /\ ret.newFirst = Mirror(MirroredEndDecision)
         /\ \A frameSize \in 0..MaxFrame :
                MeasureArgs(axis, [args EXCEPT !.frameSize = frameSize]).newFirst = ret.newFirst
         /\ ret.newLast = NewLast(args.oldFirst, oldLast,
                                  minOverscanLast, optOverscanLast, maxOverscanLast) )

\* A call whose two decisions took different rules, the end boundary staying
\* at oldLast short of the optimal boundary.
C24_Witness ==
    /\ Measured
    /\ FracPos(avgItemSize)
    /\ JsLt(minOverscanLast, oldLast)
    /\ JsGt(minOverscanLast, args.oldFirst)
    /\ ret.newLast = oldLast
    /\ ret.newLast # optOverscanLast
    /\ JsLt(minOverscanFirst, args.oldFirst)
    /\ ret.newFirst # Mirror(ret.newLast)

Again(wallSize, subsetSize, scrollPos) ==
    /\ calls < MaxCalls
    /\ ~ret.threw
    /\ prev' = [args |-> args, ret |-> ret]
    /\ args' = NextArgs(args, ret, wallSize, subsetSize, scrollPos)
    /\ ret' = MeasureArgs(axis, args')
    /\ calls' = calls + 1
    /\ UNCHANGED axis
    /\ UNCHANGED tableVars

\* The next call with exactly the geometry of the call before it.
RemeasureSame ==
    /\ calls >= 1
    /\ Again(args.wallSize, args.subsetSize, args.scrollPos)

\* The next call at the same scroll position, the items of the new range
\* having the average size just computed and the wall the size just asked for.
Remeasure ==
    /\ calls >= 1
    /\ Again(ret.newWallSize, FracTimes(NewCount(ret), ret.newAvgItemSize), args.scrollPos)

\* The second call, at another scroll position, the items of the new range
\* having the average size just computed.
Scroll ==
    /\ calls = 1
    /\ \E scrollPos \in 0..MaxTotal :
        /\ scrollPos # args.scrollPos
        /\ Again(ret.newWallSize, FracTimes(NewCount(ret), ret.newAvgItemSize), scrollPos)

\* The sequences start from a valid overscan configuration, one of the two
\* largest data sets, a non-empty old range and no item size measured yet.
SeqInit ==
    /\ Init
    /\ ValidAxis(axis)
    /\ args.totalCount >= MaxTotal - 1
    /\ args.oldCount > 0
    /\ args.oldAvgItemSize = FracZero

SeqNext == Call \/ RemeasureSame \/ Remeasure \/ Scroll

SpecSeq == SeqInit /\ [][SeqNext]_vars

\* The latest call had the totalCount, frameSize, wallSize, materialized
\* extent and scrollPos of the call before it.
SameGeometry ==
    /\ args.totalCount = prev.args.totalCount
    /\ args.frameSize = prev.args.frameSize
    /\ args.wallSize = prev.args.wallSize
    /\ args.subsetSize = prev.args.subsetSize
    /\ args.scrollPos = prev.args.scrollPos

\* The latest call took the result of the call before it as its old state.
ChainedCall ==
    /\ calls >= 2
    /\ args.oldFirst = prev.ret.newFirst
    /\ args.oldCount = NewCount(prev.ret)
    /\ args.oldAvgItemSize = prev.ret.newAvgItemSize

\* The latest call computed the positive average item size of the call before it.
SameAvg == FracPos(ret.newAvgItemSize) /\ ret.newAvgItemSize = prev.ret.newAvgItemSize

\* C6 (idempotence on identical geometry): for a valid overscan
\* configuration (minOverscan = optOverscan included), a second call with the
\* totalCount, frameSize, wallSize, extent and scrollPos of the first and the
\* first call's result as its old state returns noAddRemoveNeeded.
C6_SecondCallNoChange ==
    (ChainedCall /\ SameGeometry /\ ValidAxis(axis))
    => (~ret.threw /\ ret.noAddRemoveNeeded)

\* |s' - s| < optOverscan * avgItemSize for the scroll offsets s and s' of the
\* two latest calls.
SmallDelta ==
    LET q == ret.newAvgItemSize
    IN  Abs(args.scrollPos - prev.args.scrollPos) * q[2] < axis.optOverscan * q[1]

prevOldLast == JsSub(JsAdd(prev.args.oldFirst, prev.args.oldCount), 1)

prevFitFirst == FitFirst(prev.args.totalCount, prev.ret.newAvgItemSize, prev.args.scrollPos)

prevFitLast ==
    FitLast(prev.args.totalCount, prev.ret.newAvgItemSize, prev.args.frameSize,
            prev.args.scrollPos)

\* The index i lies in the range first..last.
InRange(i, first, last) == JsLe(first, i) /\ JsLe(i, last)

\* The items the call before the latest one asked to add: those of its new
\* range that were not in its old range.
AddedByFirst ==
    { i \in 0..(MaxTotal + MaxOldCount) :
        /\ InRange(i, prev.ret.newFirst, prev.ret.newLast)
        /\ ~InRange(i, prev.args.oldFirst, prevOldLast) }

\* The items the latest call asked to remove: those of its old range that
\* are not in its new range.
RemovedBySecond ==
    { i \in 0..(MaxTotal + MaxOldCount) :
        /\ InRange(i, args.oldFirst, oldLast)
        /\ ~InRange(i, ret.newFirst, ret.newLast) }

\* The fit ranges of the two latest calls differ by at most
\* maxOverscan - optOverscan items at either end.
SmallFitDelta ==
    /\ Abs(fitFirst - prevFitFirst) <= axis.maxOverscan - axis.optOverscan
    /\ Abs(fitLast - prevFitLast) <= axis.maxOverscan - axis.optOverscan

\* C28 (no thrashing across consecutive measurements): for a valid overscan
\* configuration and two consecutive calls, the second taking the result of
\* the first as its old state, with the same totalCount and the same positive
\* average item size, whose fit ranges differ by at most
\* maxOverscan - optOverscan items, no item added by the first call is removed
\* by the second.
C28_NoThrashing ==
    ( /\ ChainedCall
      /\ ValidAxis(axis)
      /\ ~ret.threw
      /\ args.totalCount = prev.args.totalCount
      /\ SameAvg
      /\ SmallFitDelta )
    => AddedByFirst \cap RemovedBySecond = {}

FixedNext == Call \/ Remeasure

\* Sequences of calls at one scroll position of one frame over one data set,
\* the items having the average size the first call computes.
SpecFixed == SeqInit /\ [][FixedNext]_vars

TableTotals == {0, InitialWindow \div 2, MaxTableTotal}

\* The overscan properties: absent, or the smallest strictly increasing triple
\* that ends with MaxOverscan.
OverscanProps == {Undefined, <<0, 1, MaxOverscan>>}

\* The scroll positions the frame is observed at.
ScrollPositions == {0, MaxTableTotal \div 3, MaxTableTotal}

\* No single-axis call is made.
NoAxis ==
    /\ axis = NewScrollAxis(0, 0, 0)
    /\ args = Args(0, 0, 0, FracZero, 0, 0, FracZero, 0)
    /\ ret = ScrollAxisAction
    /\ prev = [args |-> args, ret |-> ret]
    /\ calls = 0

TableInit ==
    /\ NoAxis
    /\ \E totalRowCount \in TableTotals, totalColCount \in TableTotals,
          rowOverscan \in OverscanProps, colOverscan \in OverscanProps :
            Constructed(VTableProps(totalRowCount, totalColCount, rowOverscan, colOverscan))

\* The function object VTable.prototype.measureAndUpdate.
measureAndUpdateMethod == <<"measureAndUpdate", 0>>

\* mim.Component.callMeBeforeUpdate( func): func runs once before the next
\* update however often it is passed until then.
callMeBeforeUpdate(pending, func) ==
    IF \E k \in 1..Len(pending) : pending[k] = func THEN pending ELSE Append(pending, func)

\* VTable.render: what it does to the pending functions.
render(pending) == callMeBeforeUpdate(pending, measureAndUpdateMethod)

\* A variant of onScroll that passes a new function object each time it is called.
onScrollNewClosure(pending) ==
    callMeBeforeUpdate(pending, <<"measureAndUpdate", Len(pending) + 1>>)

\* VTable.onScroll: what it does to the pending functions.
onScroll(pending) == callMeBeforeUpdate(pending, measureAndUpdateMethod)

\* The framework mounts the component: willMount.
WillMount ==
    /\ ~vt.mounted
    /\ vt' = willMount(vt, props)
    /\ UNCHANGED <<props, dom, scheduled, afterUpdate, passes, latest, events>>
    /\ UNCHANGED axisVars

\* The framework renders the mounted component, the first time and whenever
\* it is updated: render schedules measureAndUpdate.
Render ==
    /\ vt.mounted
    /\ afterUpdate = <<>>
    /\ passes < MaxPasses
    /\ scheduled' = render(scheduled)
    /\ UNCHANGED <<props, vt, dom, afterUpdate, passes, latest, events>>
    /\ UNCHANGED axisVars

\* The parent gives the mounted component a data set of another size; the
\* framework stores the new properties and renders the component.
UpdateProps ==
    /\ vt.mounted
    /\ afterUpdate = <<>>
    /\ passes >= 1
    /\ passes < MaxPasses
    /\ \E totalRowCount \in TableTotals, totalColCount \in TableTotals :
        /\ <<totalRowCount, totalColCount>> # <<props.totalRowCount, props.totalColCount>>
        /\ props' = [props EXCEPT !.totalRowCount = totalRowCount,
                                  !.totalColCount = totalColCount]
    /\ scheduled' = render(scheduled)
    /\ UNCHANGED <<vt, dom, afterUpdate, passes, latest, events>>
    /\ UNCHANGED axisVars

\* The user scrolls the rendered frame to another position and the frame
\* reports a scroll event: onScroll schedules measureAndUpdate.
OnScroll ==
    /\ vt.mounted
    /\ afterUpdate = <<>>
    /\ passes >= 1
    /\ passes < MaxPasses
    /\ events < MaxBurst
    /\ \E scrollTop \in ScrollPositions, scrollLeft \in ScrollPositions :
        /\ <<scrollTop, scrollLeft>> # <<dom.scrollTop, dom.scrollLeft>>
        /\ dom' = [dom EXCEPT !.scrollTop = scrollTop, !.scrollLeft = scrollLeft]
    /\ scheduled' = onScroll(scheduled)
    /\ events' = events + 1
    /\ UNCHANGED <<props, vt, afterUpdate, passes, latest>>
    /\ UNCHANGED axisVars

\* The extent of the table element when each of its rows is rowHeight high
\* and each of its cells colWidth wide.
TableHeight(self, rowHeight) == Int2Frac(Len(self.rows) * rowHeight)

TableWidth(self, colWidth) ==
    Int2Frac(IF self.rows = <<>> THEN 0 ELSE Len(self.rows[1].cells) * colWidth)

\* measureAndUpdate returns at its first test.
ReturnsAtOnce(self) == JsEq(rowCount(self), 0) \/ JsEq(colCount(self), 0)

\* The record of the run done of measureAndUpdate on the object self.
LatestRun(self, p, g, done, burst, resized) ==
    IF ReturnsAtOnce(self)
    THEN Latest(FALSE, done.mid, NotMeasured, NotMeasured, burst, g, resized)
    ELSE Latest(TRUE, done.mid,
                VAxisAction([self EXCEPT !.error = FALSE], p, g),
                IF done.mid.error THEN NotMeasured ELSE HAxisAction(done.mid, p, g),
                burst, g, resized)

\* The frame has another height or width than the run before read.
Resized(frameHeight, frameWidth) ==
    passes >= 1 /\ <<frameHeight, frameWidth>> # <<latest.g.frameHeight, latest.g.frameWidth>>

\* The framework calls the first pending function, measureAndUpdate, the
\* frame being where the user scrolled it and the document having any
\* geometry with a frame whose height and width are among frames.
MeasureAndUpdateIn(frames) ==
    /\ scheduled # <<>>
    /\ afterUpdate = <<>>
    /\ \E frameHeight \in frames, frameWidth \in frames,
          rowHeight \in 0..MaxItemSize, colWidth \in 0..MaxItemSize :
        \E g \in { Geometry(frameHeight, frameWidth, dom.scrollTop, dom.scrollLeft,
                             dom.wallHeight,
                             IF dom.wallWidth = Auto THEN frameWidth ELSE dom.wallWidth,
                             TableHeight(vt, rowHeight), TableWidth(vt, colWidth),
                             dom.tableTop, dom.tableLeft) } :
            \E done \in measureAndUpdate(vt, props, g) :
                /\ vt' = done.self
                /\ afterUpdate' = done.writes
                /\ latest' = LatestRun(vt, props, g, done, events,
                                        Resized(frameHeight, frameWidth))
    /\ scheduled' = Tail(scheduled)
    /\ passes' = passes + 1
    /\ events' = 0
    /\ UNCHANGED <<props, dom>>
    /\ UNCHANGED axisVars

\* A run of measureAndUpdate in a frame of 1..MaxFrame pixels.
MeasureAndUpdate == MeasureAndUpdateIn(1..MaxFrame)

\* One function passed to callMeAfterUpdate runs: it writes the offset of the
\* table and the size of the wall (a value that is not a number makes a
\* declaration the document ignores).
ApplyWrite(d, w) ==
    IF w.dir = "v"
    THEN [d EXCEPT !.tableTop = IF IsNum(w.newSubsetOffset) THEN w.newSubsetOffset ELSE @,
                   !.wallHeight = IF IsNum(w.newWallSize) THEN w.newWallSize ELSE @]
    ELSE [d EXCEPT !.tableLeft = IF IsNum(w.newSubsetOffset) THEN w.newSubsetOffset ELSE @,
                   !.wallWidth = IF IsNum(w.newWallSize) THEN w.newWallSize ELSE @]

RECURSIVE ApplyWrites(_, _)
ApplyWrites(d, ws) == IF ws = <<>> THEN d ELSE ApplyWrites(ApplyWrite(d, Head(ws)), Tail(ws))

\* The framework runs the functions passed to callMeAfterUpdate.
AfterUpdate ==
    /\ afterUpdate # <<>>
    /\ dom' = ApplyWrites(dom, afterUpdate)
    /\ afterUpdate' = <<>>
    /\ UNCHANGED <<props, vt, scheduled, passes, latest, events>>
    /\ UNCHANGED axisVars

TableNext ==
    WillMount \/ Render \/ UpdateProps \/ OnScroll \/ MeasureAndUpdate \/ AfterUpdate

SpecTable == TableInit /\ [][TableNext]_vars

(***************************************************************************)
(* Properties of VTable                                                    *)
(***************************************************************************)

\* The rows of the matrix are the data-set rows firstRow..lastRow in order,
\* and the cells of each are the columns firstCol..lastCol in order.
MatrixMatchesRanges ==
    LET is == LoopSeq(vt.firstRow, vt.lastRow)
        js == LoopSeq(vt.firstCol, vt.lastCol)
    IN  /\ IsNum(vt.firstRow) /\ IsNum(vt.lastRow)
        /\ IsNum(vt.firstCol) /\ IsNum(vt.lastCol)
        /\ Len(vt.rows) = Len(is)
        /\ \A k \in 1..Len(vt.rows) :
            /\ Len(vt.rows[k].cells) = Len(js)
            /\ \A m \in 1..Len(js) : vt.rows[k].cells[m].data = getCellData(is[k], js[m])

\* C2 (matrix matches the ranges): after mount and after any number of
\* passes, at any scroll positions and geometry, the matrix has
\* lastRow - firstRow + 1 rows of lastCol - firstCol + 1 cells each, and the
\* cell at (k, m) is the one the callback gave for (firstRow + k, firstCol + m).
C2_MatrixMatchesRanges == vt.mounted => MatrixMatchesRanges

\* The latest run measured the columns, and its column action is a diff by
\* counts that adds columns at the end.
ColsAddedAtEnd ==
    /\ latest.ran
    /\ latest.hAxisAction # NotMeasured
    /\ ~latest.hAxisAction.threw
    /\ PartialDiff(latest.hAxisAction)
    /\ latest.hAxisAction.countToAddAtEnd > 0

\* The cells of the data-set row i for the columns js[1], js[2], ...
CellsOf(i, js) == [m \in 1..Len(js) |-> VCell(getCellData(i, js[m]))]

\* C16 (adding columns at the end): a column diff that adds columns at the
\* end leaves the number and the order of the rows as they were, gives every
\* row one new cell for each of the columns oldLastCol + 1 .. newLast, in
\* that order at the end of the row, and keeps the cells the row had (those
\* the diff does not remove at the start) unchanged and in order before them.
C16_ColsAddedAtEnd ==
    ColsAddedAtEnd
    => LET h == latest.hAxisAction
           mid == latest.mid
           added == LoopSeq(JsAdd(mid.lastCol, 1), h.newLast)
       IN  /\ Len(added) = h.countToAddAtEnd
           /\ Len(vt.rows) = Len(mid.rows)
           /\ \A k \in 1..Len(mid.rows) :
                LET old == mid.rows[k].cells
                    kept == SubSeq(old, h.countToRemoveAtStart + 1, Len(old))
                    now == IF k <= Len(vt.rows) THEN vt.rows[k].cells ELSE <<>>
                    n == Len(now)
                IN  /\ n = h.countToAddAtStart + Len(kept) + Len(added)
                    /\ SubSeq(now, n - Len(added) + 1, n)
                            = CellsOf(JsAdd(mid.firstRow, k - 1), added)
                    /\ SubSeq(now, n - Len(added) - Len(kept) + 1, n - Len(added)) = kept

\* The latest run measured both axes.
BothMeasured ==
    /\ latest.ran
    /\ latest.vAxisAction # NotMeasured
    /\ ~latest.vAxisAction.threw
    /\ latest.hAxisAction # NotMeasured
    /\ ~latest.hAxisAction.threw

\* C17 (rows before columns): in a run that measures both axes, the object
\* the column axis is measured on has absorbed the row diff (its rows are the
\* data-set rows newFirst..newLast of the row action, in order, and firstRow
\* and lastRow are those), and after the run every row of that row set has
\* the cells of the new column range.
C17_RowsBeforeCols ==
    BothMeasured
    => LET v == latest.vAxisAction
           h == latest.hAxisAction
           mid == latest.mid
           is == LoopSeq(v.newFirst, v.newLast)
           js == LoopSeq(h.newFirst, h.newLast)
       IN  /\ ~v.noAddRemoveNeeded
                => ( /\ mid.firstRow = v.newFirst
                     /\ mid.lastRow = v.newLast
                     /\ Len(mid.rows) = Len(is)
                     /\ \A k \in 1..Len(mid.rows) :
                            mid.rows[k] = NewRow(is[k], LoopSeq(mid.firstCol, mid.lastCol)) )
           /\ ~h.noAddRemoveNeeded
                => ( /\ Len(vt.rows) = Len(mid.rows)
                     /\ \A k \in 1..Len(vt.rows) :
                            vt.rows[k].cells = CellsOf(JsAdd(mid.firstRow, k - 1), js) )

\* C18 (Populated to Empty): a run of measureAndUpdate on a populated grid
\* whose data set has no rows any more leaves the rows list empty and the
\* recorded row range empty (row count 0).
C18_ZeroCountClears ==
    [][ ( /\ passes' = passes + 1
          /\ vt.rows # <<>>
          /\ props.totalRowCount = 0 )
        => ( /\ vt'.rows = <<>>
             /\ JsEq(rowCount(vt'), 0) ) ]_vars

\* C19 (Empty to Populated): a run of measureAndUpdate on a mounted grid
\* without rows whose data set has rows and columns populates the grid.
C19_EmptyBecomesPopulated ==
    [][ ( /\ passes' = passes + 1
          /\ vt.mounted
          /\ vt.rows = <<>>
          /\ props.totalRowCount > 0
          /\ props.totalColCount > 0 )
        => vt'.rows # <<>> ]_vars

\* One component, over the largest data set and with the explicit overscan.
BurstInit ==
    /\ NoAxis
    /\ Constructed(VTableProps(MaxTableTotal, MaxTableTotal,
                               <<0, 1, MaxOverscan>>, <<0, 1, MaxOverscan>>))

\* The data set keeps its size.
BurstNext == WillMount \/ Render \/ OnScroll \/ MeasureAndUpdate \/ AfterUpdate

\* The life of one component, with bursts of scroll events.
SpecBurst == BurstInit /\ [][BurstNext]_vars

\* C20 (bursts of scroll events): at most one measurement is pending; the
\* scroll events reported since the latest run are all covered by the one
\* pending measurement; and when nothing is pending after a run that got past
\* its first test without an exception, that run has measured at the position
\* the frame is at.
C20_BurstCollapses ==
    /\ Len(scheduled) <= 1
    /\ events > 0 => Len(scheduled) = 1
    /\ (scheduled = <<>> /\ latest.ran /\ ~vt.error)
        => ( /\ vt.latestScrollTop = dom.scrollTop
             /\ vt.latestScrollLeft = dom.scrollLeft )

\* A burst of MaxBurst scroll events has been collapsed into one run, which
\* measured at the position of the last of them.
C20_Witness ==
    /\ latest.burst = MaxBurst
    /\ scheduled = <<>>
    /\ latest.ran
    /\ ~vt.error
    /\ vt.latestScrollTop = dom.scrollTop
    /\ vt.latestScrollLeft = dom.scrollLeft
    /\ dom.scrollTop > 0

\* The geometry writes that wait for the end of the update, for one axis.
WritesOf(dir) == SelectSeq(afterUpdate, LAMBDA w : w.dir = dir)

\* A pending write w of the action a, measured against the wall size and the
\* table offset the run read from the document, waits for a reason: one of
\* the two values it writes is not the measured one.
WriteNeeded(w, a, wallSize, offset) ==
    /\ a # NotMeasured
    /\ w.newWallSize = a.newWallSize
    /\ w.newSubsetOffset = a.newSubsetOffset
    /\ JsNe(a.newWallSize, wallSize) \/ JsNe(a.newSubsetOffset, offset)

\* The writes that wait belong to the latest run: at most one for each axis,
\* each needed, and the object has the range of the action each came from.
WritesFollowDiffs ==
    /\ Len(WritesOf("v")) <= 1
    /\ Len(WritesOf("h")) <= 1
    /\ Len(afterUpdate) = Len(WritesOf("v")) + Len(WritesOf("h"))
    /\ \A k \in 1..Len(afterUpdate) :
        LET w == afterUpdate[k]
            v == latest.vAxisAction
            h == latest.hAxisAction
        IN  /\ w.dir = "v" =>
                /\ WriteNeeded(w, v, latest.g.wallHeight, latest.g.tableTop)
                /\ ~v.noAddRemoveNeeded => (vt.firstRow = v.newFirst /\ vt.lastRow = v.newLast)
            /\ w.dir = "h" =>
                /\ WriteNeeded(w, h, latest.g.wallWidth, latest.g.tableLeft)
                /\ ~h.noAddRemoveNeeded => (vt.firstCol = h.newFirst /\ vt.lastCol = h.newLast)

\* C21 (geometry writes are deferred): a run of measureAndUpdate writes
\* neither wall size nor table offset; it leaves at most one write for each
\* axis, and only for a measured axis whose action gives a wall size or an
\* offset other than the measured one; a write runs in a later step, when the
\* row range and the column range are those of the run's actions.
C21_WritesDeferred ==
    /\ []WritesFollowDiffs
    /\ [][passes' = passes + 1 => dom' = dom]_vars
    /\ [][dom'.wallHeight # dom.wallHeight \/ dom'.tableTop # dom.tableTop
          \/ dom'.wallWidth # dom.wallWidth \/ dom'.tableLeft # dom.tableLeft
            => (afterUpdate # <<>> /\ afterUpdate' = <<>> /\ vt' = vt /\ passes' = passes)]_vars

\* A run that moved rows and columns has left a write for each axis.
C21_Witness ==
    /\ Len(afterUpdate) = 2
    /\ PartialDiff(latest.vAxisAction)
    /\ PartialDiff(latest.hAxisAction)
    /\ ~vt.error

\* The sizes of a frame the user resizes between the runs.
ResizedFrames == {MaxFrame, MaxFrame + 1}

\* A run of measureAndUpdate in a frame the user may have resized.
MeasureAndUpdateResized == MeasureAndUpdateIn(ResizedFrames)

\* One component, over the largest data set and with the explicit overscan.
SkipInit ==
    /\ NoAxis
    /\ Constructed(VTableProps(MaxTableTotal, MaxTableTotal,
                               <<0, 1, MaxOverscan>>, <<0, 1, MaxOverscan>>))

\* The data set keeps its size; the frame is scrolled and resized.
SkipNext == WillMount \/ Render \/ OnScroll \/ MeasureAndUpdateResized \/ AfterUpdate

\* The life of one component in a frame that is scrolled and resized.
SpecSkip == SkipInit /\ [][SkipNext]_vars

Materialized(p, firstRow, lastRow, firstCol, lastCol, colWidth) ==
    [willMount(NewVTable(p), p) EXCEPT
        !.rows = NewRows(LoopSeq(firstRow, lastRow), LoopSeq(firstCol, lastCol)),
        !.firstRow = firstRow,
        !.lastRow = lastRow,
        !.firstCol = firstCol,
        !.lastCol = lastCol,
        !.avgColWidth = Int2Frac(colWidth)]

\* The column actions hAxis.measure returns for the object self in a frame
\* scrolled to any position, but for noAddRemoveNeeded, on which updateCols is
\* not called.
ColActions(self, p) ==
    { a \in { Measure(self.hAxis, p.totalColCount, self.firstCol, colCount(self),
                      self.avgColWidth, frameWidth, p.totalColCount * self.avgColWidth[1],
                      FracTimes(colCount(self), self.avgColWidth), scrollLeft) :
                frameWidth \in 1..MaxFrame, scrollLeft \in 0..MaxTotal } :
        ~a.threw /\ ~a.noAddRemoveNeeded }

\* A grid of two rows over a window of columns of a data set of MaxTotal
\* columns, each 1..MaxExtent pixels wide.
ColsInit ==
    /\ NoAxis
    /\ \E firstRow \in 0..1, firstCol \in 0..(MaxTotal - 1), colWidth \in 1..MaxExtent :
        \E lastCol \in firstCol..(MaxTotal - 1) :
            \E p \in {VTableProps(MaxTotal, MaxTotal, <<0, 1, MaxOverscan>>, <<0, 1, MaxOverscan>>)} :
                /\ props = p
                /\ vt = Materialized(p, firstRow, firstRow + 1, firstCol, lastCol, colWidth)
                /\ dom = NewDom
                /\ scheduled = <<>>
                /\ afterUpdate = <<>>
                /\ passes = 0
                /\ latest = Latest(FALSE, vt, NotMeasured, NotMeasured, 0, NoGeometry, FALSE)
                /\ events = 0

\* updateCols is called with a column action; changed is the object after it.
UpdateColsTo(a, changed) ==
    /\ passes = 0
    /\ vt' = changed
    /\ latest' = Latest(TRUE, vt, NotMeasured, a, 0, NoGeometry, FALSE)
    /\ passes' = 1
    /\ UNCHANGED <<props, dom, scheduled, afterUpdate, events>>
    /\ UNCHANGED axisVars

\* updateCols of each of the three VTable classes is called.
UpdateColsFirstVariant ==
    \E a \in ColActions(vt, props) : UpdateColsTo(a, updateColsFirstVariant(vt, a))

UpdateColsSecondVariant ==
    \E a \in ColActions(vt, props) : UpdateColsTo(a, updateColsSecondVariant(vt, a))

UpdateCols ==
    \E a \in ColActions(vt, props) : UpdateColsTo(a, updateCols(vt, a))

ColsNext == UpdateColsFirstVariant \/ UpdateColsSecondVariant \/ UpdateCols

\* Single calls of updateCols of the three VTable classes.
SpecCols == ColsInit /\ [][ColsNext]_vars

\* C26 (adding columns at the start): in every VTable class, a column diff
\* with countToAddAtStart = k > 0 gives every row exactly k new cells at its
\* start, those of the columns newFirst .. oldFirstCol - 1 in ascending
\* order, before the cell of oldFirstCol the row had: the callback is called
\* once for each of these columns and not for oldFirstCol.
C26_ColsAddedAtStart ==
    ( /\ latest.ran
      /\ latest.hAxisAction # NotMeasured
      /\ ~latest.hAxisAction.threw
      /\ PartialDiff(latest.hAxisAction)
      /\ latest.hAxisAction.countToAddAtStart > 0
      /\ IsNum(latest.mid.firstRow) )
    => LET h == latest.hAxisAction
           mid == latest.mid
           added == LoopSeq(h.newFirst, JsSub(mid.firstCol, 1))
       IN  /\ Len(added) = h.countToAddAtStart
           /\ Len(vt.rows) = Len(mid.rows)
           /\ \A k \in 1..Len(mid.rows) :
                LET old == mid.rows[k].cells
                    now == IF k <= Len(vt.rows) THEN vt.rows[k].cells ELSE <<>>
                IN  /\ Len(now) = Len(added) + Len(old)
                                    - h.countToRemoveAtEnd + h.countToAddAtEnd
                    /\ SubSeq(now, 1, Len(added)) = CellsOf(JsAdd(mid.firstRow, k - 1), added)
                    /\ (Len(old) > h.countToRemoveAtEnd /\ Len(now) > Len(added))
                            => now[Len(added) + 1] = old[1]

\* The partial diff a keeps at least one item of the old range: the range it
\* asks for holds more items than it adds.
KeepsOldItem(a) ==
    (a # NotMeasured /\ ~a.threw /\ PartialDiff(a))
    => JsLe(1, JsSub(NewCount(a), a.countToAddAtStart + a.countToAddAtEnd))

\* C30 (no axis is ever emptied): in a VTable mounted on a data set with
\* rows and columns that keeps its size, after any sequence of runs of
\* measureAndUpdate rowCount and colCount are at least 1, every partial diff
\* of the latest run kept at least one old item (the column diff removed
\* fewer items than the colCount it was given), and measure has not thrown
\* "itemCount cannot be zero".
C30_AxesNeverEmpty ==
    (vt.mounted /\ props.totalRowCount > 0 /\ props.totalColCount > 0)
    => ( /\ JsLe(1, rowCount(vt))
         /\ JsLe(1, colCount(vt))
         /\ ~vt.error
         /\ latest.ran
            => ( /\ KeepsOldItem(latest.vAxisAction)
                 /\ KeepsOldItem(latest.hAxisAction)
                 /\ \A a \in {latest.vAxisAction, latest.hAxisAction} :
                        a # NotMeasured => ~a.threw
                 /\ (latest.hAxisAction # NotMeasured /\ PartialDiff(latest.hAxisAction))
                    => JsLt(latest.hAxisAction.countToRemoveAtStart
                                + latest.hAxisAction.countToRemoveAtEnd,
                            colCount(latest.mid)) ) )

====
